---- MODULE Spec2Model ----
(***************************************************************************)
(* FileJet: two browser peers negotiate a WebRTC connection through a      *)
(* Firestore document (src/src/lib/signaling.ts) and stream one file over  *)
(* the data channel (src/src/components/FileJet.tsx).                      *)
(*                                                                         *)
(* Every peer runs the FileJet component.  A peer's React state and refs   *)
(* are functions over Peers; RTCPeerConnection objects (each with at most  *)
(* one RTCDataChannel endpoint) are the elements of the sequence pcs, and  *)
(* a ref holds an index into pcs, 0 standing for null.  An async function  *)
(* suspended at an await is a record in tasks.                             *)
(***************************************************************************)
EXTENDS Integers, Sequences, FiniteSets, TLC

Peers == {"A", "B"}

\* The peers whose user presses Connect; the others wait for an offer.
Initiators == {"A"}

\* The ICE candidates one connection discovers, each once.
CandidateKinds == {"host"}

\* Bounds of the model.
MaxPc == 3        \* RTCPeerConnection objects created in one run
MaxFile == 3      \* bytes in a file
MaxChunk == 2     \* bytes the file reader yields in one read
ControlLen == 1   \* bytes a control message adds to bufferedAmount

\* The high-water mark of '@/lib/webrtc-config', in the model's bytes.
BUFFER_THRESHOLD == 2

\* The values a division by zero gives to progress.
NaN == -1
Infinity == 1000

VARIABLES
    connectionStatus,   \* useState, FileJet.tsx:22
    transferMode,       \* useState, FileJet.tsx:23
    progress,           \* useState, FileJet.tsx:24
    fileSize,           \* useState, FileJet.tsx:26
    receivedFile,       \* useState, FileJet.tsx:27
    peerConnection,     \* useRef,   FileJet.tsx:29
    dataChannel,        \* useRef,   FileJet.tsx:30
    pcs,                \* the RTCPeerConnection objects and their channels
    docs,               \* the Firestore collection 'signaling'
    ownPending,         \* a snapshot of the own-id document is to be delivered
    tasks,              \* async functions suspended at an await
    loops               \* the sendNextChunk closure of each peer's handleSendFile

vars == <<connectionStatus, transferMode, progress, fileSize, receivedFile,
          peerConnection, dataChannel, pcs, docs, ownPending, tasks, loops>>

\* The state as one record: a handler is a function from state to state.
Cur ==
    [st |-> connectionStatus, mode |-> transferMode, prog |-> progress,
     fsize |-> fileSize, rfile |-> receivedFile, pcref |-> peerConnection,
     dcref |-> dataChannel, pcs |-> pcs, docs |-> docs, own |-> ownPending,
     tasks |-> tasks, loops |-> loops]

Assign(s) ==
    /\ connectionStatus' = s.st
    /\ transferMode' = s.mode
    /\ progress' = s.prog
    /\ fileSize' = s.fsize
    /\ receivedFile' = s.rfile
    /\ peerConnection' = s.pcref
    /\ dataChannel' = s.dcref
    /\ pcs' = s.pcs
    /\ docs' = s.docs
    /\ ownPending' = s.own
    /\ tasks' = s.tasks
    /\ loops' = s.loops

NullBlob == [has |-> FALSE, bytes |-> <<>>]
Blob(chunks) == [has |-> TRUE, bytes |-> chunks]

NoDoc ==
    [exists |-> FALSE, offer |-> 0, answer |-> 0,
     senderCandidates |-> {}, receiverCandidates |-> {}]

\* new RTCPeerConnection(RTC_CONFIG) with the handlers of setupPeerConnection,
\* and the closure variables setupDataChannelEvents gives its channel.
NewPc(owner, sessionId, role) ==
    [owner |-> owner, sid |-> sessionId, role |-> role,
     closed |-> FALSE,
     sig |-> "stable",          \* pc.signalingState
     local |-> FALSE,           \* a local description is set
     remote |-> 0,              \* the pc whose description is the remote one
     offer |-> 0,               \* the offer a responder's handler parsed
     conn |-> "new",            \* pc.connectionState
     handler |-> "setup",       \* which onconnectionstatechange is installed
     dc |-> "none",             \* readyState of the channel endpoint
     sub |-> "none",            \* handleConnect's snapshot listener
     subPending |-> FALSE,
     found |-> {},              \* candidates discovered so far
     applied |-> {},            \* remote candidates added to this pc
     reapplied |-> FALSE,       \* some candidate was added a second time
     outq |-> <<>>,             \* messages sent and still buffered
     sent |-> <<>>,             \* what dc.send was given so far, by type
     lowcb |-> FALSE,           \* dc.onbufferedamountlow is set
     lowev |-> FALSE,           \* a bufferedamountlow event is queued
     receivedChunks |-> <<>>, bytesReceived |-> 0, expectedSize |-> 0,
     rx |-> "none"]             \* last control message dc.onmessage handled

NoLoop == [state |-> "none", dc |-> 0, file |-> <<>>, pos |-> 0, offset |-> 0]

Init ==
    /\ connectionStatus = [p \in Peers |-> "disconnected"]
    /\ transferMode = [p \in Peers |-> "idle"]
    /\ progress = [p \in Peers |-> 0]
    /\ fileSize = [p \in Peers |-> 0]
    /\ receivedFile = [p \in Peers |-> NullBlob]
    /\ peerConnection = [p \in Peers |-> 0]
    /\ dataChannel = [p \in Peers |-> 0]
    /\ pcs = <<>>
    /\ docs = [p \in Peers |-> NoDoc]
    /\ ownPending = [p \in Peers |-> FALSE]
    /\ tasks = {}
    /\ loops = [p \in Peers |-> NoLoop]

(***************************************************************************)
(* The rendezvous store: src/src/lib/signaling.ts.                         *)
(***************************************************************************)

\* A write to document id reaches every listener of it as a full snapshot:
\* the own-id listener of peer id and the listeners handleConnect subscribed.
Touch(s, id) ==
    [s EXCEPT !.own[id] = TRUE,
              !.pcs = [i \in DOMAIN s.pcs |->
                          IF s.pcs[i].sub = "active" /\ s.pcs[i].sid = id
                          THEN [s.pcs[i] EXCEPT !.subPending = TRUE]
                          ELSE s.pcs[i]]]

\* setDoc replaces the whole document: both candidate arrays start empty.
createSignalingSession(s, sessionId, offer) ==
    Touch([s EXCEPT !.docs[sessionId] =
               [exists |-> TRUE, offer |-> offer, answer |-> 0,
                senderCandidates |-> {}, receiverCandidates |-> {}]],
          sessionId)

\* updateDoc fails on a document that does not exist; nobody awaits or
\* catches the promise, so nothing else happens.
respondToSignalingSession(s, sessionId, answer) ==
    IF s.docs[sessionId].exists
    THEN Touch([s EXCEPT !.docs[sessionId].answer = answer], sessionId)
    ELSE s

addIceCandidate(s, sessionId, candidate, role) ==
    IF ~s.docs[sessionId].exists THEN s
    ELSE IF role = "sender"
    THEN Touch([s EXCEPT !.docs[sessionId].senderCandidates = @ \cup {candidate}],
               sessionId)
    ELSE Touch([s EXCEPT !.docs[sessionId].receiverCandidates = @ \cup {candidate}],
               sessionId)

(***************************************************************************)
(* The session controller: src/src/components/FileJet.tsx.                 *)
(***************************************************************************)

\* dc.close(): an open or connecting channel starts closing; its close event
\* is delivered later (DataChannelClose).
CloseChannel(ps, d) ==
    IF d = 0 THEN ps
    ELSE [ps EXCEPT ![d].dc = IF @ \in {"connecting", "open"} THEN "closing" ELSE @]

\* pc.close(): the connection is closed for good, fires no more connection
\* or candidate events and holds no description or candidate any more; a
\* channel it still carries closes with it.
ClosePc(ps, c) ==
    IF c = 0 THEN ps
    ELSE [ps EXCEPT ![c].closed = TRUE, ![c].sig = "closed", ![c].conn = "closed",
                    ![c].local = FALSE, ![c].remote = 0, ![c].found = {},
                    ![c].applied = {}, ![c].outq = <<>>,
                    ![c].dc = IF @ \in {"connecting", "open"} THEN "closing" ELSE @]

\* cleanup with the second if written as an else-if.
cleanup_ElseIf(s, p) ==
    [s EXCEPT !.pcs = IF s.pcref[p] # 0 THEN ClosePc(@, s.pcref[p])
                      ELSE CloseChannel(@, s.dcref[p]),
              !.dcref[p] = IF s.pcref[p] # 0 THEN @ ELSE 0,
              !.pcref[p] = 0,
              !.st[p] = "disconnected",
              !.mode[p] = "idle",
              !.prog[p] = 0,
              !.rfile[p] = NullBlob]

cleanup(s, p) ==
    [s EXCEPT !.pcs = ClosePc(CloseChannel(@, s.dcref[p]), s.pcref[p]),
              !.dcref[p] = 0,
              !.pcref[p] = 0,
              !.st[p] = "disconnected",
              !.mode[p] = "idle",
              !.prog[p] = 0,
              !.rfile[p] = NullBlob]

setupPeerConnection(s, p, sessionId, role) ==
    [s EXCEPT !.pcs = Append(@, NewPc(p, sessionId, role)),
              !.pcref[p] = Len(s.pcs) + 1]

\* The forEach over a candidates array: every element is handed to
\* addIceCandidate of connection c.  The call rejects on a closed connection
\* and on one without a remote description; the rejection is swallowed.
ApplyCandidates(s, c, cands) ==
    IF c = 0 \/ cands = {} THEN s
    ELSE IF s.pcs[c].closed \/ s.pcs[c].remote = 0 THEN s
    ELSE [s EXCEPT !.pcs[c].applied = @ \cup cands,
                   !.pcs[c].reapplied = @ \/ (cands \cap s.pcs[c].applied # {})]

\* Tasks are told apart by n when two suspended calls hold the same data.
AddTask(s, t) ==
    LET n == CHOOSE k \in 0..Cardinality(s.tasks) : [t EXCEPT !.n = k] \notin s.tasks
    IN  [s EXCEPT !.tasks = @ \cup {[t EXCEPT !.n = n]}]

Task(kind, c, step, sdp, cands) ==
    [kind |-> kind, pc |-> c, step |-> step, sdp |-> sdp, cands |-> cands, n |-> 0]

DropTask(s, t) == [s EXCEPT !.tasks = @ \ {t}]

StepTask(s, t, step) == [s EXCEPT !.tasks = (@ \ {t}) \cup {[t EXCEPT !.step = step]}]

\* onSnapshot handler of the own-id document, up to its first await.
OwnSnapshotHandler(s0, p) ==
    LET s == [s0 EXCEPT !.own[p] = FALSE]
        data == s.docs[p]
    IN  IF ~data.exists THEN s
        ELSE IF data.offer # 0 /\ s.pcref[p] = 0
        THEN LET s1 == setupPeerConnection([s EXCEPT !.st[p] = "connecting"], p, p, "receiver")
                 c == s1.pcref[p]
             IN  AddTask([s1 EXCEPT !.pcs[c].offer = data.offer],
                         Task("offer", c, "setRemoteDescription",
                              data.offer, data.senderCandidates))
        ELSE ApplyCandidates(s, s.pcref[p], data.senderCandidates)

\* The same handler resumed after an await.  Every call on a closed
\* connection rejects, which ends the handler (nothing catches it).
OfferTaskStep(s, t) ==
    LET c == t.pc
        p == s.pcs[c].owner
    IN  IF s.pcs[c].closed THEN DropTask(s, t)
        ELSE IF t.step = "setRemoteDescription"
        THEN StepTask([s EXCEPT !.pcs[c].sig = "have-remote-offer",
                                !.pcs[c].remote = t.sdp], t, "createAnswer")
        ELSE IF t.step = "createAnswer"
        THEN StepTask(s, t, "setLocalDescription")
        ELSE LET s1 == [s EXCEPT !.pcs[c].sig = "stable", !.pcs[c].local = TRUE]
                 s2 == respondToSignalingSession(s1, p, c)
             IN  DropTask(ApplyCandidates(s2, s2.pcref[p], t.cands), t)

\* handleConnect up to its first await.
handleConnect(s, p, recipientId) ==
    LET s1 == setupPeerConnection([s EXCEPT !.st[p] = "connecting"], p, recipientId, "sender")
        c == s1.pcref[p]
        s2 == [s1 EXCEPT !.pcs[c].dc = "connecting", !.dcref[p] = c]
    IN  AddTask(s2, Task("connect", c, "createOffer", 0, {}))

\* handleConnect resumed.  ok tells whether the setDoc of
\* createSignalingSession succeeds; a rejection anywhere in the try block
\* lands in the catch, which only resets the status.
ConnectTaskStep(s, t, ok) ==
    LET c == t.pc
        p == s.pcs[c].owner
        caught == DropTask([s EXCEPT !.st[p] = "disconnected"], t)
    IN  IF t.step = "createOffer"
        THEN IF s.pcs[c].closed THEN caught ELSE StepTask(s, t, "setLocalDescription")
        ELSE IF t.step = "setLocalDescription"
        THEN IF s.pcs[c].closed THEN caught
             ELSE LET s1 == [s EXCEPT !.pcs[c].sig = "have-local-offer",
                                      !.pcs[c].local = TRUE]
                  IN  IF ok THEN StepTask(createSignalingSession(s1, s.pcs[c].sid, c),
                                          t, "setDocDone")
                      ELSE StepTask(s1, t, "setDocFailed")
        ELSE IF t.step = "setDocFailed" THEN caught
        ELSE DropTask([s EXCEPT !.pcs[c].sub = "active",
                                !.pcs[c].subPending = TRUE,
                                !.pcs[c].handler = "connect"], t)

\* The handler without the test of pc.signalingState.
RecipientSnapshotHandler_NoStateCheck(s0, c) ==
    LET s == [s0 EXCEPT !.pcs[c].subPending = FALSE]
        data == s.docs[s.pcs[c].sid]
    IN  IF ~data.exists THEN s
        ELSE IF data.answer # 0
        THEN AddTask(s, Task("answer", c, "setRemoteDescription",
                             data.answer, data.receiverCandidates))
        ELSE ApplyCandidates(s, c, data.receiverCandidates)

\* onSnapshot handler of the recipient's document, up to its await.
RecipientSnapshotHandler(s0, c) ==
    LET s == [s0 EXCEPT !.pcs[c].subPending = FALSE]
        data == s.docs[s.pcs[c].sid]
    IN  IF ~data.exists THEN s
        ELSE IF data.answer # 0 /\ s.pcs[c].sig # "stable"
        THEN AddTask(s, Task("answer", c, "setRemoteDescription",
                             data.answer, data.receiverCandidates))
        ELSE ApplyCandidates(s, c, data.receiverCandidates)

\* The same handler resumed: setRemoteDescription(answer) succeeds only in
\* have-local-offer; otherwise it rejects and the handler ends.
AnswerTaskStep(s, t) ==
    LET c == t.pc
    IN  IF s.pcs[c].sig # "have-local-offer" THEN DropTask(s, t)
        ELSE DropTask(ApplyCandidates([s EXCEPT !.pcs[c].sig = "stable",
                                                !.pcs[c].remote = t.sdp],
                                      c, t.cands), t)

\* pc.onicecandidate as set by setupPeerConnection.
onicecandidate(s, c, k) ==
    addIceCandidate([s EXCEPT !.pcs[c].found = @ \cup {k}], s.pcs[c].sid, <<c, k>>,
                    IF s.pcs[c].role = "sender" THEN "sender" ELSE "receiver")

\* pc.onconnectionstatechange: the handler of setupPeerConnection, or the
\* one handleConnect installs over it.
onconnectionstatechange(s0, c, state) ==
    LET s == [s0 EXCEPT !.pcs[c].conn = state]
        p == s.pcs[c].owner
    IN  IF s.pcs[c].handler = "setup"
        THEN IF state = "connected" THEN [s EXCEPT !.st[p] = "connected"]
             ELSE IF state \in {"disconnected", "failed"} THEN cleanup(s, p)
             ELSE s
        ELSE IF state = "connected"
             THEN [s EXCEPT !.st[p] = "connected", !.pcs[c].sub = "unsubscribed",
                            !.pcs[c].subPending = FALSE]
             ELSE s

\* pc.ondatachannel of the responder.
ondatachannel(s, c) ==
    [s EXCEPT !.dcref[s.pcs[c].owner] = c, !.pcs[c].dc = "connecting"]

\* dc.onopen and dc.onclose as set by setupDataChannelEvents.
onopen(s, c) ==
    [s EXCEPT !.pcs[c].dc = "open", !.st[s.pcs[c].owner] = "connected"]

onclose(s, c) ==
    cleanup([s EXCEPT !.pcs[c].dc = "closed"], s.pcs[c].owner)

(***************************************************************************)
(* The chunked transfer engine: handleSendFile and dc.onmessage.           *)
(***************************************************************************)

RECURSIVE Concat(_)
Concat(chunks) ==
    IF chunks = <<>> THEN <<>> ELSE Head(chunks) \o Concat(Tail(chunks))

\* JSON.stringify gives a string payload, JSON.parse reads one back; a
\* chunk travels as a binary payload.
Stringify(obj) == [kind |-> "string", json |-> obj]
Parse(payload) == payload.json
Binary(bytes) == [kind |-> "binary", bytes |-> bytes]

MessageLen(m) == IF m.kind = "binary" THEN Len(m.bytes) ELSE ControlLen

RECURSIVE SumLen(_)
SumLen(q) == IF q = <<>> THEN 0 ELSE MessageLen(Head(q)) + SumLen(Tail(q))

\* dc.bufferedAmount
bufferedAmount(ch) == SumLen(ch.outq)

\* (a / b) * 100, rounded down to a whole percent.
Percent(a, b) ==
    IF b = 0 THEN (IF a = 0 THEN NaN ELSE Infinity) ELSE (a * 100) \div b

MessageType(m) == IF m.kind = "binary" THEN "chunk" ELSE Parse(m).type

\* dc.send on a channel that is open.
Send(s, d, m) ==
    [s EXCEPT !.pcs[d].outq = Append(@, m),
              !.pcs[d].sent = Append(@, MessageType(m))]

\* sendNextChunk from the top of its while loop to the next point where it
\* gives up control: the break, the return after arming the low-water
\* callback, or the await of reader.read().
\* The loop head without the bufferedAmount test.
LoopTop_NoBackpressure(s, p) ==
    IF s.dcref[p] = 0 \/ s.pcs[s.dcref[p]].dc # "open"
    THEN [s EXCEPT !.loops[p].state = "aborted"]
    ELSE [s EXCEPT !.loops[p].state = "reading"]

\* The loop head returning on a full buffer without arming the callback.
LoopTop_NotArmed(s, p) ==
    LET d == s.loops[p].dc
    IN  IF s.dcref[p] = 0 \/ s.pcs[s.dcref[p]].dc # "open"
        THEN [s EXCEPT !.loops[p].state = "aborted"]
        ELSE IF bufferedAmount(s.pcs[d]) > BUFFER_THRESHOLD
        THEN [s EXCEPT !.loops[p].state = "suspended"]
        ELSE [s EXCEPT !.loops[p].state = "reading"]

LoopTop(s, p) ==
    LET d == s.loops[p].dc
    IN  IF s.dcref[p] = 0 \/ s.pcs[s.dcref[p]].dc # "open"
        THEN [s EXCEPT !.loops[p].state = "aborted"]
        ELSE IF bufferedAmount(s.pcs[d]) > BUFFER_THRESHOLD
        THEN [s EXCEPT !.pcs[d].lowcb = TRUE, !.loops[p].state = "suspended"]
        ELSE [s EXCEPT !.loops[p].state = "reading"]

\* handleSendFile without the metadata message.
handleSendFile_NoMetadata(s, p, file) ==
    LET d == s.dcref[p]
    IN  IF d = 0 \/ s.pcs[d].dc # "open" THEN s
        ELSE LET s1 == [s EXCEPT !.fsize[p] = Len(file),
                                 !.mode[p] = "sending",
                                 !.prog[p] = 0]
             IN  LoopTop([s1 EXCEPT !.loops[p] =
                              [state |-> "reading", dc |-> d, file |-> file,
                               pos |-> 0, offset |-> 0]], p)

handleSendFile(s, p, file) ==
    LET d == s.dcref[p]
    IN  IF d = 0 \/ s.pcs[d].dc # "open" THEN s
        ELSE LET s1 == [s EXCEPT !.fsize[p] = Len(file),
                                 !.mode[p] = "sending",
                                 !.prog[p] = 0]
                 s2 == Send(s1, d, Stringify([type |-> "metadata", size |-> Len(file)]))
             IN  LoopTop([s2 EXCEPT !.loops[p] =
                              [state |-> "reading", dc |-> d, file |-> file,
                               pos |-> 0, offset |-> 0]], p)

\* sendNextChunk resumed after await reader.read(), which yields the next n
\* bytes of the file, or done at its end.  A send on a channel that is not
\* open throws, and so does reading readyState of a null dataChannel.current;
\* nothing catches either, the loop just ends.
ReadResumed(s, p, n) ==
    LET l == s.loops[p]
        d == l.dc
    IN  IF l.pos = Len(l.file)
        THEN IF s.dcref[p] = 0 THEN [s EXCEPT !.loops[p].state = "threw"]
             ELSE IF s.pcs[s.dcref[p]].dc = "open"
             THEN IF s.pcs[d].dc = "open"
                  THEN [Send(s, d, Stringify([type |-> "eof"]))
                            EXCEPT !.loops[p].state = "done"]
                  ELSE [s EXCEPT !.loops[p].state = "threw"]
             ELSE [s EXCEPT !.loops[p].state = "done"]
        ELSE IF s.pcs[d].dc # "open" THEN [s EXCEPT !.loops[p].state = "threw"]
        ELSE LET value == SubSeq(l.file, l.pos + 1, l.pos + n)
                 s1 == Send(s, d, Binary(value))
                 offset == l.offset + Len(value)
             IN  LoopTop([s1 EXCEPT !.loops[p].pos = l.pos + n,
                                    !.loops[p].offset = offset,
                                    !.prog[p] = Percent(offset, Len(l.file))], p)

\* dc.onbufferedamountlow, when the callback is armed.
onbufferedamountlow(s, d) ==
    IF s.pcs[d].lowcb
    THEN LoopTop([s EXCEPT !.pcs[d].lowcb = FALSE, !.pcs[d].lowev = FALSE],
                 s.pcs[d].owner)
    ELSE [s EXCEPT !.pcs[d].lowev = FALSE]

\* dc.onmessage putting a chunk in front of the buffer, not behind it.
onmessage_Prepend(s, d, data) ==
    LET p == s.pcs[d].owner
    IN  IF data.kind = "string"
        THEN LET msg == Parse(data)
             IN  IF msg.type = "metadata"
                 THEN [s EXCEPT !.fsize[p] = msg.size,
                                !.pcs[d].expectedSize = msg.size,
                                !.mode[p] = "receiving",
                                !.pcs[d].receivedChunks = <<>>,
                                !.pcs[d].bytesReceived = 0,
                                !.pcs[d].rx = "metadata",
                                !.prog[p] = 0]
                 ELSE IF msg.type = "eof"
                 THEN [s EXCEPT !.rfile[p] = Blob(Concat(s.pcs[d].receivedChunks)),
                                !.pcs[d].rx = "eof",
                                !.prog[p] = 100]
                 ELSE s
        ELSE LET n == s.pcs[d].bytesReceived + Len(data.bytes)
             IN  [s EXCEPT !.pcs[d].receivedChunks = <<data.bytes>> \o @,
                           !.pcs[d].bytesReceived = n,
                           !.prog[p] = Percent(n, s.pcs[d].expectedSize)]

\* dc.onmessage as set by setupDataChannelEvents on channel d.
onmessage(s, d, data) ==
    LET p == s.pcs[d].owner
    IN  IF data.kind = "string"
        THEN LET msg == Parse(data)
             IN  IF msg.type = "metadata"
                 THEN [s EXCEPT !.fsize[p] = msg.size,
                                !.pcs[d].expectedSize = msg.size,
                                !.mode[p] = "receiving",
                                !.pcs[d].receivedChunks = <<>>,
                                !.pcs[d].bytesReceived = 0,
                                !.pcs[d].rx = "metadata",
                                !.prog[p] = 0]
                 ELSE IF msg.type = "eof"
                 THEN [s EXCEPT !.rfile[p] = Blob(Concat(s.pcs[d].receivedChunks)),
                                !.pcs[d].rx = "eof",
                                !.prog[p] = 100]
                 ELSE s
        ELSE LET n == s.pcs[d].bytesReceived + Len(data.bytes)
             IN  [s EXCEPT !.pcs[d].receivedChunks = Append(@, data.bytes),
                           !.pcs[d].bytesReceived = n,
                           !.prog[p] = Percent(n, s.pcs[d].expectedSize)]

\* The transport takes the oldest buffered message of channel d and hands
\* it to the other end, in order and once.  bufferedAmount falling to the
\* low-water threshold (0 unless set, and the code never sets it) queues a
\* bufferedamountlow event.
Transmitted(s, d) ==
    LET r == s.pcs[d].remote
        m == Head(s.pcs[d].outq)
        s1 == [s EXCEPT !.pcs[d].outq = Tail(@),
                        !.pcs[d].lowev = @ \/ Tail(s.pcs[d].outq) = <<>>]
    IN  onmessage(s1, r, m)

(***************************************************************************)
(* Actions: one per event the browser delivers to the component.           *)
(***************************************************************************)

PcIds == DOMAIN pcs

\* Both ends hold each other's description: the transports can connect.
Linked(c) ==
    LET r == pcs[c].remote
    IN  /\ r # 0
        /\ pcs[c].local
        /\ ~pcs[r].closed
        /\ pcs[r].local
        /\ pcs[r].remote = c

\* The Connect button (enabled while disconnected) with a recipient id.
Connect(p, r) ==
    /\ connectionStatus[p] = "disconnected"
    /\ r # p
    /\ Len(pcs) < MaxPc
    /\ Assign(handleConnect(Cur, p, r))

OwnSnapshot(p) ==
    /\ ownPending[p]
    /\ (docs[p].exists /\ docs[p].offer # 0 /\ peerConnection[p] = 0) => Len(pcs) < MaxPc
    /\ Assign(OwnSnapshotHandler(Cur, p))

RecipientSnapshot(c) ==
    /\ pcs[c].sub = "active"
    /\ pcs[c].subPending
    /\ Assign(RecipientSnapshotHandler(Cur, c))

OfferTask(t) ==
    /\ t.kind = "offer"
    /\ Assign(OfferTaskStep(Cur, t))

ConnectTask(t) ==
    /\ t.kind = "connect"
    /\ \E ok \in BOOLEAN :
          /\ (t.step # "setLocalDescription" \/ pcs[t.pc].closed) => ok
          /\ Assign(ConnectTaskStep(Cur, t, ok))

AnswerTask(t) ==
    /\ t.kind = "answer"
    /\ Assign(AnswerTaskStep(Cur, t))

IceCandidate(c, k) ==
    /\ ~pcs[c].closed
    /\ pcs[c].local
    /\ k \notin pcs[c].found
    /\ Assign(onicecandidate(Cur, c, k))

ConnectionStateChange(c, state) ==
    /\ ~pcs[c].closed
    /\ pcs[c].local
    /\ pcs[c].remote # 0
    /\ \/ state = "connected" /\ pcs[c].conn \in {"new", "disconnected"} /\ Linked(c)
       \/ state = "disconnected" /\ pcs[c].conn = "connected"
       \/ state = "failed" /\ pcs[c].conn \in {"new", "connected", "disconnected"}
    /\ Assign(onconnectionstatechange(Cur, c, state))

\* The responder's connection announces the channel the initiator created.
DataChannelAnnounce(c) ==
    /\ ~pcs[c].closed
    /\ pcs[c].role = "receiver"
    /\ pcs[c].dc = "none"
    /\ pcs[c].conn = "connected"
    /\ Linked(c)
    /\ pcs[pcs[c].remote].dc \in {"connecting", "open"}
    /\ Assign(ondatachannel(Cur, c))

DataChannelOpen(c) ==
    /\ ~pcs[c].closed
    /\ pcs[c].dc = "connecting"
    /\ pcs[c].conn = "connected"
    /\ Assign(onopen(Cur, c))

\* The close event of a channel: after its own close(), after the other end
\* closed, or after the transport under it failed.
DataChannelClose(c) ==
    /\ \/ pcs[c].dc = "closing"
       \/ /\ pcs[c].dc = "open"
          /\ \/ pcs[c].conn = "failed"
             \/ pcs[pcs[c].remote].closed
             \/ pcs[pcs[c].remote].dc \in {"closing", "closed"}
    /\ Assign(onclose(Cur, c))

\* The file input (enabled while connected and idle) with a chosen file.
FileOf(p, n) == [i \in 1..n |-> <<p, i>>]

SendFile(p, n) ==
    /\ connectionStatus[p] = "connected"
    /\ transferMode[p] = "idle"
    /\ Assign(handleSendFile(Cur, p, FileOf(p, n)))

ReaderRead(p, n) ==
    /\ loops[p].state = "reading"
    /\ IF loops[p].pos = Len(loops[p].file) THEN n = 1
       ELSE n <= Len(loops[p].file) - loops[p].pos
    /\ Assign(ReadResumed(Cur, p, n))

Transmit(d) ==
    /\ pcs[d].dc = "open"
    /\ pcs[d].outq # <<>>
    /\ pcs[d].remote # 0
    /\ pcs[pcs[d].remote].dc = "open"
    /\ pcs[pcs[d].remote].remote = d
    /\ Assign(Transmitted(Cur, d))

\* A queued bufferedamountlow event is dispatched, whatever became of the
\* channel in between.
BufferedAmountLow(d) ==
    /\ pcs[d].lowev
    /\ Assign(onbufferedamountlow(Cur, d))

\* Session set-up and teardown, with no file picked.
Next ==
    \/ \E p \in Initiators, r \in Peers : Connect(p, r)
    \/ \E p \in Peers : OwnSnapshot(p)
    \/ \E c \in PcIds : RecipientSnapshot(c)
    \/ \E t \in tasks : OfferTask(t)
    \/ \E t \in tasks : ConnectTask(t)
    \/ \E t \in tasks : AnswerTask(t)
    \/ \E c \in PcIds, k \in CandidateKinds : IceCandidate(c, k)
    \/ \E c \in PcIds, state \in {"connected", "disconnected", "failed"} :
          ConnectionStateChange(c, state)
    \/ \E c \in PcIds : DataChannelAnnounce(c)
    \/ \E c \in PcIds : DataChannelOpen(c)
    \/ \E c \in PcIds : DataChannelClose(c)

Spec == Init /\ [][Next]_vars

(***************************************************************************)
(* The transfer on an established session.  EstablishedPcs is the state    *)
(* Spec reaches when A connected to B, both exchanged their candidate,     *)
(* both channels opened and every handler has returned.  From there the    *)
(* users pick files and the transport runs, fails or closes; nobody        *)
(* presses Connect again.                                                  *)
(***************************************************************************)

EstablishedPcs ==
    << [NewPc("A", "B", "sender") EXCEPT
            !.sig = "stable", !.local = TRUE, !.remote = 2, !.conn = "connected",
            !.handler = "connect", !.dc = "open", !.sub = "unsubscribed",
            !.found = {"host"}, !.applied = {<<2, "host">>}],
       [NewPc("B", "B", "receiver") EXCEPT
            !.sig = "stable", !.local = TRUE, !.remote = 1, !.conn = "connected",
            !.offer = 1, !.dc = "open", !.found = {"host"}, !.applied = {<<1, "host">>}] >>

Established ==
    /\ connectionStatus = [p \in Peers |-> "connected"]
    /\ transferMode = [p \in Peers |-> "idle"]
    /\ progress = [p \in Peers |-> 0]
    /\ fileSize = [p \in Peers |-> 0]
    /\ receivedFile = [p \in Peers |-> NullBlob]
    /\ peerConnection = [p \in Peers |-> IF p = "A" THEN 1 ELSE 2]
    /\ dataChannel = [p \in Peers |-> IF p = "A" THEN 1 ELSE 2]
    /\ pcs = EstablishedPcs
    /\ docs = [p \in Peers |->
                 IF p = "B"
                 THEN [exists |-> TRUE, offer |-> 1, answer |-> 2,
                       senderCandidates |-> {<<1, "host">>},
                       receiverCandidates |-> {<<2, "host">>}]
                 ELSE NoDoc]
    /\ ownPending = [p \in Peers |-> FALSE]
    /\ tasks = {}
    /\ loops = [p \in Peers |-> NoLoop]

NextTransfer ==
    \/ \E p \in Peers, n \in 0..MaxFile : SendFile(p, n)
    \/ \E p \in Peers, n \in 1..MaxChunk : ReaderRead(p, n)
    \/ \E d \in PcIds : Transmit(d)
    \/ \E d \in PcIds : BufferedAmountLow(d)
    \/ \E c \in PcIds, state \in {"connected", "disconnected", "failed"} :
          ConnectionStateChange(c, state)
    \/ \E c \in PcIds : DataChannelClose(c)

SpecTransfer == Established /\ [][NextTransfer]_vars

\* The transfer in one direction, from the peer that connected, with a
\* file reader that answers every read, a transport that keeps draining the
\* send buffer of an open channel and a browser that dispatches every event
\* it has queued.
EstablishedIds == 1..Len(EstablishedPcs)

NextSend ==
    \/ \E p \in Initiators, n \in 0..MaxFile : SendFile(p, n)
    \/ \E p \in Initiators, n \in 1..MaxChunk : ReaderRead(p, n)
    \/ \E d \in PcIds : Transmit(d)
    \/ \E d \in PcIds : BufferedAmountLow(d)
    \/ \E c \in PcIds, state \in {"connected", "disconnected", "failed"} :
          ConnectionStateChange(c, state)
    \/ \E c \in PcIds : DataChannelClose(c)

SpecSend ==
    /\ Established
    /\ [][NextSend]_vars
    /\ \A p \in Initiators : WF_vars(\E n \in 1..MaxChunk : ReaderRead(p, n))
    /\ \A d \in EstablishedIds : WF_vars(Transmit(d)) /\ WF_vars(BufferedAmountLow(d))

(***************************************************************************)
(* The receive handler against any peer.  What arrives on an open channel  *)
(* is whatever the other end chose to send: dc.onmessage gets every        *)
(* message in every order, as long as the chunks fit in MaxFile bytes.     *)
(***************************************************************************)

ChunkOf(n) == [i \in 1..n |-> "x"]

WireMessages ==
    {Stringify([type |-> "metadata", size |-> n]) : n \in 0..MaxFile}
        \cup {Stringify([type |-> "eof"])}
        \cup {Binary(ChunkOf(n)) : n \in 1..MaxChunk}

Receive(d, m) ==
    /\ pcs[d].dc = "open"
    /\ dataChannel[pcs[d].owner] = d
    /\ m.kind = "binary" => pcs[d].bytesReceived + Len(m.bytes) <= MaxFile
    /\ Assign(onmessage(Cur, d, m))

NextReceive ==
    \/ \E d \in PcIds, m \in WireMessages : Receive(d, m)
    \/ \E c \in PcIds, state \in {"disconnected", "failed"} :
          ConnectionStateChange(c, state)
    \/ \E c \in PcIds : DataChannelClose(c)

SpecReceive == Established /\ [][NextReceive]_vars

(***************************************************************************)
(* Session set-up with a third peer.  A connects to B as before, and a     *)
(* peer C, running the same component, connects to A: A's own-id document  *)
(* then holds C's offer and C's candidates while A is (or is about to be)  *)
(* the initiator of its own session with B.                                *)
(***************************************************************************)

ThirdPeers == Peers \cup {"C"}

\* Who enters whose id before pressing Connect.
Dials == {<<"A", "B">>, <<"C", "A">>}

InitThird ==
    /\ connectionStatus = [p \in ThirdPeers |-> "disconnected"]
    /\ transferMode = [p \in ThirdPeers |-> "idle"]
    /\ progress = [p \in ThirdPeers |-> 0]
    /\ fileSize = [p \in ThirdPeers |-> 0]
    /\ receivedFile = [p \in ThirdPeers |-> NullBlob]
    /\ peerConnection = [p \in ThirdPeers |-> 0]
    /\ dataChannel = [p \in ThirdPeers |-> 0]
    /\ pcs = <<>>
    /\ docs = [p \in ThirdPeers |-> NoDoc]
    /\ ownPending = [p \in ThirdPeers |-> FALSE]
    /\ tasks = {}
    /\ loops = [p \in ThirdPeers |-> NoLoop]

NextThird ==
    \/ \E dial \in Dials : Connect(dial[1], dial[2])
    \/ \E p \in ThirdPeers : OwnSnapshot(p)
    \/ \E c \in PcIds : RecipientSnapshot(c)
    \/ \E t \in tasks : OfferTask(t)
    \/ \E t \in tasks : ConnectTask(t)
    \/ \E t \in tasks : AnswerTask(t)
    \/ \E c \in PcIds, k \in CandidateKinds : IceCandidate(c, k)
    \/ \E c \in PcIds, state \in {"connected", "disconnected", "failed"} :
          ConnectionStateChange(c, state)
    \/ \E c \in PcIds : DataChannelAnnounce(c)
    \/ \E c \in PcIds : DataChannelOpen(c)
    \/ \E c \in PcIds : DataChannelClose(c)

SpecThird == InitThird /\ [][NextThird]_vars

(***************************************************************************)
(* Properties.                                                             *)
(***************************************************************************)

\* C1: no candidate of the peer's candidate array is added to the local
\* connection more than once, whatever snapshots arrive, for either role.
C1_CandidateAppliedOnce == \A c \in PcIds : ~pcs[c].reapplied

\* C7: whenever a connection reports failed or disconnected, for either
\* role, cleanup runs: the peer ends disconnected with both handles null.
TornDown(p) ==
    /\ connectionStatus[p] = "disconnected"
    /\ peerConnection[p] = 0
    /\ dataChannel[p] = 0

C7_FailureTearsDown ==
    [][\A c \in PcIds, state \in {"disconnected", "failed"} :
          ConnectionStateChange(c, state) => TornDown(pcs[c].owner)']_vars

\* C8: a peer never has two connections that are both not closed.
OpenPcs(p) == {c \in PcIds : pcs[c].owner = p /\ ~pcs[c].closed}

C8_OneOpenConnection == \A p \in Peers : Cardinality(OpenPcs(p)) <= 1

\* C10: once an attempt is finished (its connection reported connected, or
\* was closed) and no handler is left to run, its session document has been
\* deleted from the store.
Settled ==
    /\ tasks = {}
    /\ \A p \in Peers : ~ownPending[p]
    /\ \A c \in PcIds : ~pcs[c].subPending /\ pcs[c].dc # "closing" /\ ~pcs[c].lowev

AttemptFinished(c) ==
    /\ pcs[c].role = "sender"
    /\ pcs[c].conn = "connected" \/ pcs[c].closed

C10_SessionDeleted ==
    \A c \in PcIds :
        (Settled /\ AttemptFinished(c)) =>
            ~(docs[pcs[c].sid].exists /\ docs[pcs[c].sid].offer = c)

Other(p) == CHOOSE q \in Peers : q # p

\* The connection (and channel) of peer p in the established session.
PcOf(p) == CHOOSE c \in PcIds : pcs[c].owner = p

\* No teardown has touched peer p's channel handle.
Attached(p) == dataChannel[p] = PcOf(p)

\* C2: a chunk is sent only after a check found bufferedAmount at most
\* BUFFER_THRESHOLD, nothing is sent while the loop waits for the low-water
\* callback and only that callback resumes it, so bufferedAmount never
\* exceeds the threshold by more than one chunk.
CheckedBeforeRead ==
    \A p \in Peers : loops[p].state = "reading" =>
        bufferedAmount(pcs[loops[p].dc]) <= BUFFER_THRESHOLD

AtMostOneChunkOver ==
    \A d \in PcIds : bufferedAmount(pcs[d]) <= BUFFER_THRESHOLD + MaxChunk

SuspendedUntilLowWater ==
    \A p \in Peers : loops[p].state = "suspended" =>
        /\ pcs'[loops[p].dc].sent = pcs[loops[p].dc].sent
        /\ loops'[p].state # "suspended" => BufferedAmountLow(loops[p].dc)

SendOnlyAfterCheck ==
    \A p \in Peers : loops[p].state # "none" =>
        (pcs'[loops[p].dc].sent # pcs[loops[p].dc].sent => loops[p].state = "reading")

C2_Backpressure ==
    /\ [](CheckedBeforeRead /\ AtMostOneChunkOver)
    /\ [][SuspendedUntilLowWater /\ SendOnlyAfterCheck]_vars

C2_Witness ==
    \E p \in Peers :
        /\ loops[p].state = "suspended"
        /\ bufferedAmount(pcs[loops[p].dc]) > BUFFER_THRESHOLD
        /\ loops[p].offset > 0

\* C3: what the receiver assembles at eof is, byte for byte, what the
\* sender read from its file, and that is the whole file.
C3_ChunkRoundTrip ==
    \A p \in Peers : receivedFile[p].has =>
        /\ loops[Other(p)].pos = Len(loops[Other(p)].file)
        /\ receivedFile[p].bytes = SubSeq(loops[Other(p)].file, 1, loops[Other(p)].pos)
        /\ receivedFile[p].bytes = Concat(pcs[PcOf(p)].receivedChunks)

C3_Witness ==
    \E p \in Peers :
        LET chunks == pcs[PcOf(p)].receivedChunks
        IN  /\ receivedFile[p].has
            /\ Len(receivedFile[p].bytes) = MaxFile
            /\ Len(chunks) >= 2
            /\ Len(chunks[1]) = MaxChunk
            /\ Len(chunks[Len(chunks)]) < MaxChunk

\* C4: on the sender and on the receiver, progress never decreases between
\* the metadata of a transfer and its eof, and is 100 once eof is sent or
\* received.
SenderBusy(p) == loops[p].state \in {"reading", "suspended"}
EofSent(p) ==
    /\ loops[p].state = "done"
    /\ pcs[loops[p].dc].sent # <<>>
    /\ pcs[loops[p].dc].sent[Len(pcs[loops[p].dc].sent)] = "eof"

C4_ProgressMonotone ==
    [][\A p \in Peers :
          /\ (SenderBusy(p) /\ Attached(p) /\ Attached(p)')
                => progress'[p] >= progress[p]
          /\ (SenderBusy(p) /\ EofSent(p)' /\ Attached(p)')
                => progress'[p] = 100
          /\ (pcs[PcOf(p)].rx = "metadata" /\ Attached(p) /\ Attached(p)')
                => progress'[p] >= progress[p]
          /\ (pcs[PcOf(p)].rx = "metadata" /\ pcs'[PcOf(p)].rx = "eof" /\ Attached(p)')
                => progress'[p] = 100]_vars

\* C5: a second cleanup right after a cleanup changes nothing, whatever the
\* state the first one started from.
C5_CleanupIdempotent ==
    \A p \in Peers : cleanup(cleanup(Cur, p), p) = cleanup(Cur, p)

C5_Witness ==
    \E c \in PcIds :
        /\ pcs[c].closed
        /\ pcs[c].dc = "closed"
        /\ TornDown(pcs[c].owner)
        /\ loops[pcs[c].owner].state # "none"

\* C6: a zero-byte file puts one metadata, no chunk and one eof on the
\* channel and ends with progress 100 on the sender and on the receiver.
C6_ZeroByteTransfer ==
    \A p \in Peers :
        (loops[p].state = "done" /\ loops[p].file = <<>> /\ Attached(p)) =>
            /\ pcs[loops[p].dc].sent = <<"metadata", "eof">>
            /\ progress[p] = 100
            /\ (pcs[PcOf(Other(p))].rx = "eof" /\ Attached(Other(p)))
                  => progress[Other(p)] = 100

\* C9: the send loop never calls send on a channel that is not open and
\* never fails: resumed after the channel closed, it just stops.
C9_SilentAbort == \A p \in Peers : loops[p].state # "threw"

\* C11: a candidate a connection has put into its role's array of the
\* session document stays there for as long as that connection is not
\* closed: no write to the document takes it out again.
Published(ds, c) ==
    IF pcs[c].role = "sender" THEN ds[pcs[c].sid].senderCandidates
    ELSE ds[pcs[c].sid].receiverCandidates

OutOfSequence(d, m) ==
    /\ pcs[d].rx = "none"
    /\ MessageType(m) # "metadata"
    /\ Receive(d, m)

C12_OutOfSequenceRejected ==
    [][\A d \in PcIds, m \in WireMessages :
          OutOfSequence(d, m) =>
              /\ pcs'[d].receivedChunks = pcs[d].receivedChunks
              /\ pcs'[d].bytesReceived = pcs[d].bytesReceived
              /\ progress' = progress
              /\ receivedFile' = receivedFile]_vars

\* C13: a peer is in at most one transfer role: while its send loop runs it
\* is not in the middle of receiving a file on the same channel.
Receiving(p) == Attached(p) /\ pcs[PcOf(p)].rx = "metadata"

C13_OneTransferRole == \A p \in Peers : ~(SenderBusy(p) /\ Receiving(p))

\* C14: a peer whose status is disconnected holds neither a connection nor
\* a channel, and its transfer state is idle with progress 0.
C14_NoPartialTeardown ==
    \A p \in Peers : connectionStatus[p] = "disconnected" =>
        /\ peerConnection[p] = 0
        /\ dataChannel[p] = 0
        /\ transferMode[p] = "idle"
        /\ progress[p] = 0

\* C15: for either role, once every handler has run, a connected connection
\* has been given every candidate its peer's connection published, those
\* published after it connected included.
LateCandidatesApplied(c) ==
    LET r == pcs[c].remote
    IN  (/\ Settled
         /\ ~pcs[c].closed
         /\ pcs[c].conn = "connected"
         /\ r # 0
         /\ ~pcs[r].closed)
            => \A k \in CandidateKinds :
                  <<r, k>> \in Published(docs, r) => <<r, k>> \in pcs[c].applied

C15_LateCandidatesApplied == \A c \in PcIds : LateCandidatesApplied(c)

\* C16: what a transfer puts on its channel is one metadata message, then
\* the bytes of the file in file order, then one eof: nothing before the
\* metadata, nothing after the eof, and the eof is there once the loop has
\* finished on a channel that is still open.
RECURSIVE BinaryBytes(_)
BinaryBytes(q) ==
    IF q = <<>> THEN <<>>
    ELSE (IF Head(q).kind = "binary" THEN Head(q).bytes ELSE <<>>)
             \o BinaryBytes(Tail(q))

InOrder(q) ==
    /\ q # <<>>
    /\ q[1] = "metadata"
    /\ \A i \in 2..Len(q) : q[i] = "chunk" \/ (q[i] = "eof" /\ i = Len(q))

C16_SenderOrder ==
    \A p \in Peers : loops[p].state # "none" =>
        LET l == loops[p]
            d == l.dc
            r == pcs[d].remote
            q == pcs[d].sent
        IN  /\ InOrder(q)
            /\ q[Len(q)] = "eof" => l.state = "done" /\ l.pos = Len(l.file)
            /\ (l.state = "done" /\ Attached(p) /\ pcs[d].dc = "open")
                  => q[Len(q)] = "eof"
            /\ ~pcs[d].closed =>
                  Concat(pcs[r].receivedChunks) \o BinaryBytes(pcs[d].outq)
                      = SubSeq(l.file, 1, l.pos)

C16_Witness ==
    \E p \in Peers :
        /\ loops[p].state = "done"
        /\ Len(loops[p].file) = MaxFile
        /\ Attached(p)
        /\ pcs[loops[p].dc].dc = "open"
        /\ Len(pcs[loops[p].dc].sent) >= 4
        /\ pcs[loops[p].dc].outq # <<>>

\* C17: the responder creates one connection per offer, however often and
\* whenever snapshots carrying that offer are delivered.
ResponderPcs(p, offer) ==
    {c \in PcIds : pcs[c].owner = p /\ pcs[c].role = "receiver" /\ pcs[c].offer = offer}

C17_OneConnectionPerOffer ==
    \A p \in Peers, offer \in PcIds : Cardinality(ResponderPcs(p, offer)) <= 1

\* C18: the initiator calls setRemoteDescription with the answer only while
\* its signaling state is not stable, and the answer becomes the remote
\* description of a connection at most once: only from have-local-offer,
\* which the connection then leaves for good.
AnswerCalledWhileUnsettled ==
    \A t \in tasks' \ tasks : t.kind = "answer" => pcs[t.pc].sig # "stable"

AnswerSetOnce ==
    \A c \in PcIds :
        (pcs[c].role = "sender" /\ pcs'[c].remote # pcs[c].remote /\ pcs'[c].remote # 0)
            => /\ pcs[c].remote = 0
               /\ pcs[c].sig = "have-local-offer"
               /\ pcs'[c].sig = "stable"

AnswerSettles ==
    \A c \in PcIds :
        /\ (pcs[c].role = "sender" /\ pcs[c].remote # 0) => pcs[c].sig = "stable"
        /\ (pcs[c].role = "sender" /\ pcs[c].sig = "have-local-offer")
              => pcs[c].remote = 0 /\ pcs[c].local

SettledForGood ==
    \A c \in PcIds :
        (pcs[c].role = "sender" /\ pcs[c].sig \in {"stable", "closed"} /\ pcs[c].local)
            => pcs'[c].sig # "have-local-offer"

C18_AnswerAppliedOnce ==
    /\ []AnswerSettles
    /\ [][AnswerCalledWhileUnsettled /\ AnswerSetOnce /\ SettledForGood]_vars

\* The answer is set while a second handler, which passed the test before,
\* is still suspended at its await.
C18_Witness ==
    \E c \in PcIds, t \in tasks :
        /\ t.kind = "answer"
        /\ t.pc = c
        /\ pcs[c].sig = "stable"
        /\ pcs[c].remote # 0

\* C19: a send loop whose channel stays open sends eof in the end: it does
\* not stay suspended for ever, and the low-water callback is armed only
\* while the loop is suspended, so a second instance never starts beside a
\* running one.
StaysOpen(p) ==
    /\ Attached(p)
    /\ pcs[PcOf(p)].dc = "open"
    /\ pcs[PcOf(Other(p))].dc = "open"

OneLoopInstance ==
    \A d \in PcIds : pcs[d].lowcb =>
        /\ loops[pcs[d].owner].state = "suspended"
        /\ loops[pcs[d].owner].dc = d

C19_TransferCompletes ==
    /\ []OneLoopInstance
    /\ \A p \in Peers : SenderBusy(p) ~> (EofSent(p) \/ ~StaysOpen(p))

C19_Witness ==
    \E p \in Peers :
        /\ EofSent(p)
        /\ StaysOpen(p)
        /\ Len(loops[p].file) = MaxFile
        /\ Len(pcs[loops[p].dc].sent) = MaxFile + 2
        /\ bufferedAmount(pcs[loops[p].dc]) > BUFFER_THRESHOLD

\* C20: the close event of a channel that is no longer the peer's current
\* one, delivered after a newer connection was created, leaves that newer
\* connection, both handles and the status as they are.
Stale(c) ==
    /\ peerConnection[pcs[c].owner] # 0
    /\ peerConnection[pcs[c].owner] # c
    /\ dataChannel[pcs[c].owner] # c

C20_StaleCloseIgnored ==
    [][\A c \in PcIds :
          (Stale(c) /\ DataChannelClose(c)) =>
              LET p == pcs[c].owner
                  new == peerConnection[p]
              IN  /\ peerConnection'[p] = new
                  /\ dataChannel'[p] = dataChannel[p]
                  /\ connectionStatus'[p] = connectionStatus[p]
                  /\ pcs'[new].closed = pcs[new].closed]_vars

\* C21: a connection is given only the candidates of its own session: an
\* initiator's connection those its recipient's responder published in the
\* recipient's document, a responder's connection those an initiator
\* published in the responder's own-id document.
OwnSession(c, cand) ==
    /\ pcs[cand[1]].sid = pcs[c].sid
    /\ pcs[cand[1]].role # pcs[c].role

C21_OwnSessionCandidates ==
    \A c \in PcIds : \A cand \in pcs[c].applied : OwnSession(c, cand)

\* C22: once the responder has answered the offer in its own-id document
\* and cleanup has closed that connection, a snapshot that still carries the
\* same offer creates no connection and leaves the status as it is.
Consumed(p) ==
    /\ docs[p].exists
    /\ \E c \in PcIds :
          /\ pcs[c].owner = p
          /\ pcs[c].role = "receiver"
          /\ pcs[c].offer = docs[p].offer
          /\ docs[p].answer = c
          /\ pcs[c].closed

C22_OfferConsumedOnce ==
    [][\A p \in Peers :
          (Consumed(p) /\ OwnSnapshot(p)) =>
              /\ Len(pcs') = Len(pcs)
              /\ peerConnection'[p] = peerConnection[p]
              /\ connectionStatus'[p] = connectionStatus[p]]_vars

====
